---- MODULE Spec2Model ----
(***************************************************************************)
(* Model of nvda_client/main.py: the NVDAClient class, a binding that      *)
(* loads the NVDA controller client library and forwards speak, braille,   *)
(* braille_and_speak and cancelSpeech to it, raising RuntimeError for a    *)
(* non-zero status code.                                                   *)
(*                                                                         *)
(* The native library is the environment: the status code every foreign    *)
(* call returns, and whether LoadLibrary finds the file, are inputs.       *)
(* Every foreign call is appended to `log` in the order the code makes it. *)
(***************************************************************************)
EXTENDS Integers, Sequences, FiniteSets, TLC

MaxHandles == 2      \* NVDAClient objects the caller may construct
MaxLog == 5          \* foreign calls recorded
MaxCode == 2         \* status codes range over 0..MaxCode

Handles == 1..MaxHandles
Codes == 0..MaxCode
Texts == {"hello", "bye"}

\* sys.maxsize is 2^31 - 1 in a 32-bit process and 2^63 - 1 in a 64-bit one;
\* it is kept as its exponent, so that sys.maxsize > 2**32 reads bits > 32.
MaxsizeBits == {31, 63}

VARIABLES
    maxsizeBits,            \* exponent of sys.maxsize of the running process
    state,                  \* per object: "none" (not constructed), "ok", "failed"
    nvdaControllerClient,   \* per object: self._nvdaControllerClient ("" = unset)
    log,                    \* the foreign calls made so far, in order
    outcome                 \* what the caller saw from the most recent call

vars == <<maxsizeBits, state, nvdaControllerClient, log, outcome>>

NoError == [type |-> "None", msg |-> ""]

\* ctypes.FormatError: the system message of a code, "<no description>" when
\* the system has none.
FormatError(code) ==
    CASE code = 1 -> "Incorrect function."
      [] code = 2 -> "The system cannot find the file specified."
      [] code = 3 -> "The system cannot find the path specified."
      [] OTHER -> "<no description>"

\* A variant that decodes the thread's last error (WinError() without its
\* argument) instead of the code it is given.
get_error_message_last_error(error_code) ==
    "[WinError 0] " \o FormatError(0)

\* NVDAClient._get_error_message: str(ctypes.WinError(error_code))
get_error_message(error_code) ==
    "[WinError " \o ToString(error_code) \o "] " \o FormatError(error_code)

RuntimeError(message) == [type |-> "RuntimeError", msg |-> message]

\* A variant that tests the address width against 2**64.
DllPathWrongWidth(bits) ==
    IF bits > 64 THEN "nvdaControllerClient64.dll"
                 ELSE "nvdaControllerClient32.dll"

\* __init__, the choice of dll_path
DllPath(bits) ==
    IF bits > 32 THEN "nvdaControllerClient64.dll"
                 ELSE "nvdaControllerClient32.dll"

\* One call into a loaded library (or of LoadLibrary itself, lib = "").
ForeignCall(lg, h, lib, fn, arg, ret) ==
    Append(lg, [h |-> h, lib |-> lib, fn |-> fn, arg |-> arg, ret |-> ret])

Self(h) == [h |-> h, nvdaControllerClient |-> nvdaControllerClient[h]]

\* A variant of __init__ that never looks at the status of the check.
initNoCheck(lg, h, bits, loaded, r) ==
    LET dll_path == DllPath(bits)
        lg1 == ForeignCall(lg, h, "", "LoadLibrary", dll_path,
                           IF loaded THEN 1 ELSE 0)
    IN  IF ~loaded
        THEN [log |-> lg1, lib |-> "",
              err |-> [type |-> "OSError", msg |-> "Could not find module"]]
        ELSE [log |-> ForeignCall(lg1, h, dll_path,
                                  "nvdaController_testIfRunning", "", r),
              lib |-> dll_path,
              err |-> NoError]

\* A variant of __init__ with the test of the status inverted.
initInverted(lg, h, bits, loaded, r) ==
    LET dll_path == DllPath(bits)
        lg1 == ForeignCall(lg, h, "", "LoadLibrary", dll_path,
                           IF loaded THEN 1 ELSE 0)
    IN  IF ~loaded
        THEN [log |-> lg1, lib |-> "",
              err |-> [type |-> "OSError", msg |-> "Could not find module"]]
        ELSE [log |-> ForeignCall(lg1, h, dll_path,
                                  "nvdaController_testIfRunning", "", r),
              lib |-> dll_path,
              err |-> IF r = 0 THEN RuntimeError(get_error_message(r))
                               ELSE NoError]

\* NVDAClient.__init__: select the library, load it (the LoadLibrary event
\* returns 1 for a module handle, 0 when the load raises OSError), then call
\* nvdaController_testIfRunning and raise for a non-zero result.
init(lg, h, bits, loaded, r) ==
    LET dll_path == DllPath(bits)
        lg1 == ForeignCall(lg, h, "", "LoadLibrary", dll_path,
                           IF loaded THEN 1 ELSE 0)
    IN  IF ~loaded
        THEN [log |-> lg1, lib |-> "",
              err |-> [type |-> "OSError", msg |-> "Could not find module"]]
        ELSE [log |-> ForeignCall(lg1, h, dll_path,
                                  "nvdaController_testIfRunning", "", r),
              lib |-> dll_path,
              err |-> IF r # 0 THEN RuntimeError(get_error_message(r))
                               ELSE NoError]

\* A variant of speak that calls the entry point again after a failure.
speakRetry(lg, self, text, r) ==
    LET lg1 == ForeignCall(lg, self.h, self.nvdaControllerClient,
                           "nvdaController_speakText", text, r)
    IN  [log |-> IF r # 0
                 THEN ForeignCall(lg1, self.h, self.nvdaControllerClient,
                                  "nvdaController_speakText", text, r)
                 ELSE lg1,
         err |-> IF r # 0 THEN RuntimeError(get_error_message(r)) ELSE NoError]

\* NVDAClient.speak
speak(lg, self, text, r) ==
    [log |-> ForeignCall(lg, self.h, self.nvdaControllerClient,
                         "nvdaController_speakText", text, r),
     err |-> IF r # 0 THEN RuntimeError(get_error_message(r)) ELSE NoError]

\* NVDAClient.braille
braille(lg, self, text, r) ==
    [log |-> ForeignCall(lg, self.h, self.nvdaControllerClient,
                         "nvdaController_brailleMessage", text, r),
     err |-> IF r # 0 THEN RuntimeError(get_error_message(r)) ELSE NoError]

\* A variant of braille_and_speak that speaks first.
speak_and_braille(lg, self, text, rb, rs) ==
    LET s == speak(lg, self, text, rs)
    IN  IF s.err # NoError THEN s ELSE braille(s.log, self, text, rb)

\* A variant of braille_and_speak that drops the result of speak.
braille_and_speak_swallow(lg, self, text, rb, rs) ==
    LET b == braille(lg, self, text, rb)
    IN  IF b.err # NoError THEN b
        ELSE [log |-> speak(b.log, self, text, rs).log, err |-> NoError]

\* NVDAClient.braille_and_speak: self.braille(text) raising ends the call,
\* otherwise self.speak(text).
braille_and_speak(lg, self, text, rb, rs) ==
    LET b == braille(lg, self, text, rb)
    IN  IF b.err # NoError THEN b ELSE speak(b.log, self, text, rs)

\* A variant of cancelSpeech that repeats the is-running check first.
cancelSpeechRecheck(lg, self, r) ==
    LET lg1 == ForeignCall(lg, self.h, self.nvdaControllerClient,
                           "nvdaController_testIfRunning", "", 0)
    IN  [log |-> ForeignCall(lg1, self.h, self.nvdaControllerClient,
                             "nvdaController_cancelSpeech", "", r),
         err |-> IF r # 0 THEN RuntimeError(get_error_message(r)) ELSE NoError]

\* NVDAClient.cancelSpeech
cancelSpeech(lg, self, r) ==
    [log |-> ForeignCall(lg, self.h, self.nvdaControllerClient,
                         "nvdaController_cancelSpeech", "", r),
     err |-> IF r # 0 THEN RuntimeError(get_error_message(r)) ELSE NoError]

Outcome(h, op, text, res) ==
    [h |-> h, op |-> op, text |-> text, err |-> res.err, before |-> Len(log)]

Init ==
    /\ maxsizeBits \in MaxsizeBits
    /\ state = [h \in Handles |-> "none"]
    /\ nvdaControllerClient = [h \in Handles |-> ""]
    /\ log = <<>>
    /\ outcome = [h |-> 0, op |-> "none", text |-> "", err |-> NoError,
                  before |-> 0]

\* NVDAClient(): the object exists for the caller only when __init__ returns.
Construct(h, loaded, r) ==
    /\ state[h] = "none"
    /\ Len(log) + 2 <= MaxLog
    /\ LET res == init(log, h, maxsizeBits, loaded, r)
       IN  /\ log' = res.log
           /\ nvdaControllerClient' =
                  [nvdaControllerClient EXCEPT ![h] = res.lib]
           /\ state' = [state EXCEPT
                  ![h] = IF res.err = NoError THEN "ok" ELSE "failed"]
           /\ outcome' = Outcome(h, "__init__", "", res)
    /\ UNCHANGED maxsizeBits

\* A variant of Speak that reloads the library into the object.
SpeakReloading(h, text, r) ==
    /\ state[h] = "ok"
    /\ Len(log) + 2 <= MaxLog
    /\ LET lg1 == ForeignCall(log, h, "", "LoadLibrary", DllPath(maxsizeBits), 1)
           res == speak(lg1, Self(h), text, r)
       IN  /\ log' = res.log
           /\ outcome' = Outcome(h, "speak", text, res)
    /\ UNCHANGED <<maxsizeBits, state, nvdaControllerClient>>

Speak(h, text, r) ==
    /\ state[h] = "ok"
    /\ Len(log) + 1 <= MaxLog
    /\ LET res == speak(log, Self(h), text, r)
       IN  /\ log' = res.log
           /\ outcome' = Outcome(h, "speak", text, res)
    /\ UNCHANGED <<maxsizeBits, state, nvdaControllerClient>>

\* A variant of Braille in which a failed call closes the object.
BrailleInvalidating(h, text, r) ==
    /\ state[h] = "ok"
    /\ Len(log) + 1 <= MaxLog
    /\ LET res == braille(log, Self(h), text, r)
       IN  /\ log' = res.log
           /\ outcome' = Outcome(h, "braille", text, res)
           /\ state' = [state EXCEPT
                  ![h] = IF res.err = NoError THEN "ok" ELSE "failed"]
    /\ UNCHANGED <<maxsizeBits, nvdaControllerClient>>

Braille(h, text, r) ==
    /\ state[h] = "ok"
    /\ Len(log) + 1 <= MaxLog
    /\ LET res == braille(log, Self(h), text, r)
       IN  /\ log' = res.log
           /\ outcome' = Outcome(h, "braille", text, res)
    /\ UNCHANGED <<maxsizeBits, state, nvdaControllerClient>>

BrailleAndSpeak(h, text, rb, rs) ==
    /\ state[h] = "ok"
    /\ Len(log) + 2 <= MaxLog
    /\ LET res == braille_and_speak(log, Self(h), text, rb, rs)
       IN  /\ log' = res.log
           /\ outcome' = Outcome(h, "braille_and_speak", text, res)
    /\ UNCHANGED <<maxsizeBits, state, nvdaControllerClient>>

CancelSpeech(h, r) ==
    /\ state[h] = "ok"
    /\ Len(log) + 1 <= MaxLog
    /\ LET res == cancelSpeech(log, Self(h), r)
       IN  /\ log' = res.log
           /\ outcome' = Outcome(h, "cancelSpeech", "", res)
    /\ UNCHANGED <<maxsizeBits, state, nvdaControllerClient>>

Next ==
    \/ \E h \in Handles, loaded \in BOOLEAN, r \in Codes : Construct(h, loaded, r)
    \/ \E h \in Handles, text \in Texts, r \in Codes : Speak(h, text, r)
    \/ \E h \in Handles, text \in Texts, r \in Codes : Braille(h, text, r)
    \/ \E h \in Handles, text \in Texts, rb \in Codes, rs \in Codes :
           BrailleAndSpeak(h, text, rb, rs)
    \/ \E h \in Handles, r \in Codes : CancelSpeech(h, r)

Spec == Init /\ [][Next]_vars

(***************************************************************************)
(* Properties                                                              *)
(***************************************************************************)

\* The foreign calls made by the most recent call of the caller.
Own == SubSeq(log, outcome.before + 1, Len(log))

Ops == {"speak", "braille", "braille_and_speak", "cancelSpeech"}

OpFns == {"nvdaController_speakText", "nvdaController_brailleMessage",
          "nvdaController_cancelSpeech"}

EntryPoint(op) ==
    CASE op = "speak" -> "nvdaController_speakText"
      [] op = "braille" -> "nvdaController_brailleMessage"
      [] op = "braille_and_speak" -> "nvdaController_brailleMessage"
      [] op = "cancelSpeech" -> "nvdaController_cancelSpeech"

\* The error a caller must see for status code c.
Decoded(c) ==
    [type |-> "RuntimeError",
     msg |-> "[WinError " \o ToString(c) \o "] " \o FormatError(c)]

Events(lg, h, fns) == {i \in DOMAIN lg : lg[i].h = h /\ lg[i].fn \in fns}

\* C1: construction whose is-running check returns a non-zero code c raises
\* the error decoded from exactly c and produces no object, and no speak,
\* braille or cancel call is ever made through an object that was not
\* produced.
C1_ConstructNotRunningFails ==
    /\ (outcome.op = "__init__" /\ Len(Own) = 2 /\ Own[2].ret # 0) =>
           /\ outcome.err = Decoded(Own[2].ret)
           /\ state[outcome.h] = "failed"
    /\ \A h \in Handles :
           (\E i \in Events(log, h, {"nvdaController_testIfRunning"}) :
                log[i].ret # 0)
               => state[h] = "failed" /\ Events(log, h, OpFns) = {}

C1_Witness ==
    /\ outcome.op = "__init__"
    /\ Len(Own) = 2
    /\ Own[2].fn = "nvdaController_testIfRunning"
    /\ Own[2].ret = 2
    /\ state[outcome.h] = "failed"

\* C2: construction whose is-running check returns 0 succeeds, and every
\* speak, braille, braille_and_speak and cancelSpeech called on the object
\* reaches its entry point in the library the object loaded.
C2_ConstructRunningUsable ==
    /\ (outcome.op = "__init__" /\ Len(Own) = 2 /\ Own[2].ret = 0) =>
           outcome.err = NoError /\ state[outcome.h] = "ok"
    /\ \A h \in Handles :
           (\E i \in Events(log, h, {"nvdaController_testIfRunning"}) :
                log[i].ret = 0) => state[h] = "ok"
    /\ outcome.op \in Ops =>
           /\ Len(Own) >= 1
           /\ Own[1].fn = EntryPoint(outcome.op)
           /\ \A i \in DOMAIN Own :
                  /\ Own[i].h = outcome.h
                  /\ Own[i].lib = nvdaControllerClient[outcome.h]
                  /\ \E j \in Events(log, outcome.h, {"LoadLibrary"}) :
                         log[j].ret = 1 /\ log[j].arg = Own[i].lib

C2_Witness ==
    \E h \in Handles :
        /\ state[h] = "ok"
        /\ Events(log, h, {"nvdaController_speakText"}) # {}
        /\ Events(log, h, {"nvdaController_brailleMessage"}) # {}
        /\ Events(log, h, {"nvdaController_cancelSpeech"}) # {}

\* C3: speak, braille and cancelSpeech return normally exactly when their
\* entry point returned 0, and for a non-zero code c raise the error decoded
\* from c.
C3_StatusDecidesOutcome ==
    outcome.op \in {"speak", "braille", "cancelSpeech"} =>
        /\ Len(Own) = 1
        /\ Own[1].fn = EntryPoint(outcome.op)
        /\ (outcome.err = NoError <=> Own[1].ret = 0)
        /\ (Own[1].ret # 0 => outcome.err = Decoded(Own[1].ret))

C3_Witness ==
    /\ outcome.op = "cancelSpeech"
    /\ Len(Own) = 1
    /\ Own[1].ret = 1
    /\ outcome.err = Decoded(1)

\* C4: braille_and_speak calls the braille entry point before the speak
\* entry point; when braille returns a non-zero code speak is not called and
\* the error is the one decoded from the braille code.
C4_BrailleBeforeSpeak ==
    outcome.op = "braille_and_speak" =>
        /\ Len(Own) >= 1
        /\ Own[1].fn = "nvdaController_brailleMessage"
        /\ \A i \in DOMAIN Own :
               Own[i].fn = "nvdaController_speakText" => i > 1
        /\ Own[1].ret # 0 =>
               /\ Len(Own) = 1
               /\ outcome.err = Decoded(Own[1].ret)

C4_Witness ==
    /\ outcome.op = "braille_and_speak"
    /\ Len(Own) = 1
    /\ Own[1].fn = "nvdaController_brailleMessage"
    /\ Own[1].ret # 0

\* C5: in braille_and_speak, when braille returns 0 and speak returns a
\* non-zero code c the error is the one decoded from c, and braille was
\* called once with the caller's text.
C5_SpeakErrorAfterBraille ==
    (outcome.op = "braille_and_speak" /\ Len(Own) >= 1 /\ Own[1].ret = 0) =>
        /\ Len(Own) = 2
        /\ Own[1].fn = "nvdaController_brailleMessage"
        /\ Own[1].arg = outcome.text
        /\ Own[2].fn = "nvdaController_speakText"
        /\ Own[2].ret # 0 => outcome.err = Decoded(Own[2].ret)

C5_Witness ==
    /\ outcome.op = "braille_and_speak"
    /\ Len(Own) = 2
    /\ Own[1].ret = 0
    /\ Own[2].ret # 0
    /\ outcome.err = Decoded(Own[2].ret)

\* The error the status codes of the most recent call alone determine.
OwnError ==
    IF \E i \in DOMAIN Own : Own[i].ret # 0
    THEN Decoded(Own[CHOOSE i \in DOMAIN Own :
                         /\ Own[i].ret # 0
                         /\ \A j \in DOMAIN Own : Own[j].ret # 0 => i <= j].ret)
    ELSE NoError

\* C6: a failed operation is fatal to that call only: the object stays
\* usable, every operation can still be called on it, and the outcome of a
\* call is decided by the status codes of its own foreign calls.
C6_FailureFatalToCallOnly ==
    /\ outcome.op \in Ops =>
           /\ state[outcome.h] = "ok"
           /\ outcome.err = OwnError
    /\ \A h \in Handles :
           (Events(log, h, OpFns) # {} /\ Len(log) + 2 <= MaxLog) =>
               /\ ENABLED (\E t \in Texts, r \in Codes : Speak(h, t, r))
               /\ ENABLED (\E t \in Texts, r \in Codes : Braille(h, t, r))
               /\ ENABLED (\E t \in Texts, rb \in Codes, rs \in Codes :
                               BrailleAndSpeak(h, t, rb, rs))
               /\ ENABLED (\E r \in Codes : CancelSpeech(h, r))

C6_Witness ==
    /\ outcome.op \in Ops
    /\ outcome.err = NoError
    /\ \E i \in Events(log, outcome.h, OpFns) :
           i <= outcome.before /\ log[i].ret # 0

\* C7: the library reference of a constructed object is never changed by an
\* operation, and the library is loaded once per object.
C7_HandleImmutable ==
    [][\A h \in Handles :
           state[h] = "ok" =>
               /\ nvdaControllerClient'[h] = nvdaControllerClient[h]
               /\ nvdaControllerClient[h] # ""
               /\ Cardinality(Events(log, h, {"LoadLibrary"})) = 1
               /\ Cardinality(Events(log', h, {"LoadLibrary"})) = 1]_vars

C7_Witness ==
    /\ outcome.op = "speak"
    /\ outcome.err # NoError
    /\ nvdaControllerClient[outcome.h] # ""
    /\ Cardinality(Events(log, outcome.h, {"LoadLibrary"})) = 1

\* C8: no retry: speak, braille and cancelSpeech make exactly one foreign
\* call whatever it returns; braille_and_speak makes one braille call and
\* then one speak call exactly when braille returned 0, both with the
\* caller's text.
C8_NoRetry ==
    /\ outcome.op \in {"speak", "braille", "cancelSpeech"} =>
           /\ Len(Own) = 1
           /\ Own[1].fn = EntryPoint(outcome.op)
           /\ Own[1].arg = outcome.text
    /\ outcome.op = "braille_and_speak" =>
           /\ Len(Own) \in {1, 2}
           /\ Own[1].fn = "nvdaController_brailleMessage"
           /\ Own[1].arg = outcome.text
           /\ (Len(Own) = 2 <=> Own[1].ret = 0)
           /\ Len(Own) = 2 =>
                  /\ Own[2].fn = "nvdaController_speakText"
                  /\ Own[2].arg = outcome.text

C8_Witness ==
    /\ outcome.op = "speak"
    /\ outcome.text = "hello"
    /\ Len(Own) = 1
    /\ Own[1].ret # 0

\* C9: construction loads the 64-bit library in a 64-bit process and the
\* 32-bit library otherwise, loads nothing else, and makes the is-running
\* check on the library it loaded, after loading it.
C9_LibrarySelectedByWidth ==
    /\ \A i \in DOMAIN log :
           log[i].fn = "LoadLibrary" =>
               log[i].arg = IF maxsizeBits = 63
                            THEN "nvdaControllerClient64.dll"
                            ELSE "nvdaControllerClient32.dll"
    /\ \A h \in Handles :
           /\ Cardinality(Events(log, h, {"LoadLibrary"})) <= 1
           /\ \A i \in Events(log, h, {"nvdaController_testIfRunning"}) :
                  \E j \in Events(log, h, {"LoadLibrary"}) :
                      /\ j < i
                      /\ log[j].ret = 1
                      /\ log[i].lib = log[j].arg

C9_Witness ==
    /\ maxsizeBits = 63
    /\ outcome.op = "__init__"
    /\ Len(Own) = 2
    /\ Own[1].fn = "LoadLibrary"
    /\ Own[1].arg = "nvdaControllerClient64.dll"
    /\ Own[2].fn = "nvdaController_testIfRunning"

\* C10: every speak, braille or cancel foreign call of an object comes after
\* an is-running check of that object that returned 0, and the check is made
\* once per object, never again before later operations.
C10_CheckedOnceAtConstruction ==
    \A h \in Handles :
        /\ Cardinality(Events(log, h, {"nvdaController_testIfRunning"})) <= 1
        /\ \A i \in Events(log, h, OpFns) :
               \E j \in Events(log, h, {"nvdaController_testIfRunning"}) :
                   j < i /\ log[j].ret = 0

C10_Witness ==
    /\ outcome.op = "cancelSpeech"
    /\ outcome.err # NoError
    /\ Cardinality(Events(log, outcome.h, OpFns)) >= 2
    /\ Cardinality(Events(log, outcome.h,
                          {"nvdaController_testIfRunning"})) = 1

====
